---- MODULE Spec2Model ----
(***************************************************************************)
(* Model of the translation job queue of BabelDoc-GUI:                     *)
(*   electron/main/translation.ts  (TranslationManager)                    *)
(*   electron/main/store.ts        (history store)                         *)
(*   electron/main/environment.ts  (ensureEnvironment cache)               *)
(*                                                                         *)
(* Node runs the manager on one event loop.  One action of the model is    *)
(* one event-loop task together with the promise continuations            *)
(* (microtasks) it releases: no other task can run between a handler and   *)
(* the continuations of the promises it settles, so the `await` of         *)
(* processNext and its queueMicrotask(processNext) belong to the action    *)
(* that settles runJob's promise.  The places where runJob really waits    *)
(* for I/O (createHistorySkeleton, ensureEnvironment, the child process)   *)
(* are separate actions.                                                   *)
(***************************************************************************)
EXTENDS Integers, Sequences, FiniteSets, TLC

\* ------------------------------------------------------------------ bounds
\* jobs enqueued in one session
MaxJobs == 3
\* lines a child writes in a run of the progress interpreter
MaxLines == 3
\* lines beyond the log cap a child writes in a run of the log buffer
LogExtra == 2
\* markJobSaved calls in a run of the save operation
MaxSaveCalls == 2
\* jobs beyond the history cap enqueued in a run of the history store
HistoryExtra == 2
\* calls of ensureEnvironment in a run of the environment provisioner
MaxEnvCalls == 2
\* "data" events delivered by the children of one session
MaxChunks == 1
\* markJobSaved calls in one session
MaxSaves == 1

\* ------------------------------------------------------- program constants
LogCap == 500
HistoryCap == 500
SpawnFailCode == -2

Undefined == "undefined"

\* emitStatus called without its optional progress argument
NoProgress == -1

\* exit codes a child that was really started may close with
ExitCodes == {0, 1}

\* the file handed to enqueue
FilePaths == {"/docs/a.pdf"}
SavePaths == {"/dest"}
SaveTargets == {"/dest", "/other"}
SpawnErrorText == "spawn babeldoc ENOENT"

\* chunks of child output, already decoded
TextDebug == "{'stage': 'Translate Paragraphs', 'overall_progress': 74.8}"
TextBlank == "  "
Chunks == {TextDebug, TextBlank}

\* lines of child output for the progress interpreter
TextDebugLow == "{'stage': 'Parse Page Layout', 'overall_progress': 12.5}"
TextDebugOver == "'overall_progress': 250"
TextStart == "start to translate"
TextTypeset == "Typesetting and Save PDF"
TextPlain == "INFO babeldoc"
TextDebugEdge == "'overall_progress': 100.4"
TextDebugDot == "'overall_progress': ."
TextTranslate == "Translate Paragraphs (12/40)"
Lines == {TextDebug, TextDebugLow, TextDebugOver, TextStart, TextTypeset,
          TextPlain, TextDebugEdge, TextDebugDot, TextTranslate, TextBlank}

\* what the probes of ensureEnvironment can find
PythonCandidates == {"python3", "python"}
UvBinDirText == "/uv/bin"

\* cachedEnvironment = null
NoEnvironment == [pythonPath |-> Undefined]

VARIABLES
    queue,              \* TranslationManager.queue
    processing,         \* TranslationManager.processing
    history,            \* store.get("history")
    cachedEnvironment,  \* environment.ts cachedEnvironment
    env,                \* the calls of ensureEnvironment made by the app
    phase,              \* per job id: where its runJob call is suspended
    child,              \* per job id: state of the spawned ChildProcess
    chunks,             \* "data" events delivered so far
    saves,              \* markJobSaved calls so far
    saving,             \* save-output calls suspended at an await
    dispatched,         \* job ids in the order runJob was entered
    completed,          \* per job id: the completed payloads emitted
    emitted,            \* notifications emitted by the last task, in order
    last                \* the last task run

vars == <<queue, processing, history, cachedEnvironment, env, phase, child,
          chunks, saves, saving, dispatched, completed, emitted, last>>

Ids == 1..MaxJobs

Min(a, b) == IF a < b THEN a ELSE b

\* String.prototype.trim on the chunk texts of the model
Trim(text) == IF text = TextBlank THEN "" ELSE text

\* Array.prototype.find on the queue: index of the first match, 0 if none
FindById(q, id) ==
    IF \E i \in DOMAIN q : q[i].id = id
    THEN CHOOSE i \in DOMAIN q :
             q[i].id = id /\ \A k \in 1..(i - 1) : q[k].id # id
    ELSE 0

\* mutant: the last queued job instead of the first
FindQueuedLast(q) ==
    IF \E i \in DOMAIN q : q[i].status = "queued"
    THEN CHOOSE i \in DOMAIN q :
             q[i].status = "queued"
             /\ \A k \in (i + 1)..Len(q) : q[k].status # "queued"
    ELSE 0

FindQueued(q) ==
    IF \E i \in DOMAIN q : q[i].status = "queued"
    THEN CHOOSE i \in DOMAIN q :
             q[i].status = "queued"
             /\ \A k \in 1..(i - 1) : q[k].status # "queued"
    ELSE 0

\* ------------------------------------------------------------ store.ts
\* mutant: the record is added at the end, so the cap drops the newest
appendHistoryTail(h, record) ==
    LET next == h \o <<record>>
    IN  SubSeq(next, 1, Min(Len(next), HistoryCap))

appendHistory(h, record) ==
    LET next == <<record>> \o h
    IN  SubSeq(next, 1, Min(Len(next), HistoryCap))

\* {...record, ...data}: the fields of data replace those of the record
updateHistoryRecord(h, id, data) ==
    [i \in DOMAIN h |-> IF h[i].id = id THEN data @@ h[i] ELSE h[i]]

\* the value updateHistoryRecord returns is non-null
HasRecord(h, id) == \E i \in DOMAIN h : h[i].id = id

\* ------------------------------------------------------ environment.ts
\* join(uvBinDir, "babeldoc"), or "babeldoc" when uvBinDir is empty
BabeldocPath(uvBinDir) ==
    IF uvBinDir # "" THEN uvBinDir \o "/babeldoc" ELSE "babeldoc"

\* the summary ensureEnvironment caches and returns
Summary(pythonPath, uvBinDir) ==
    [pythonPath |-> pythonPath, uvPath |-> "uv",
     babeldocPath |-> BabeldocPath(uvBinDir), uvBinDir |-> uvBinDir]

\* the summary the runs of the translation manager resolve to
ResolvedSummary == Summary("python3", UvBinDirText)

EnvCalls == 1..MaxEnvCalls

\* a call of ensureEnvironment: where it is suspended, the notifications
\* it has passed to notify, what it returned, and whether it is the first
\* call made after a resetEnvironmentCache
IdleCall ==
    [stage |-> "idle", notified |-> <<>>, pythonPath |-> Undefined,
     returned |-> NoEnvironment, afterReset |-> FALSE, afterFailure |-> FALSE,
     cachedAtStart |-> NoEnvironment]

EnvIdle ==
    [calls |-> [c \in EnvCalls |-> IdleCall],
     resetPending |-> FALSE, failurePending |-> FALSE]

\* emitStatus(notify, stage, status, message)
Notify(call, stage, status) ==
    [call EXCEPT !.notified = Append(@, <<stage, status>>)]

\* ensureEnvironment up to its first await
EnsureStart(c) ==
    /\ env.calls[c].stage = "idle"
    /\ \A b \in 1..(c - 1) : env.calls[b].stage # "idle"
    /\ LET call == [env.calls[c] EXCEPT
                       !.afterReset = env.resetPending,
                       !.afterFailure = env.failurePending,
                       !.cachedAtStart = cachedEnvironment]
       IN  env' = [env EXCEPT
                     !.resetPending = FALSE,
                     !.failurePending = FALSE,
                     !.calls[c] =
                        IF cachedEnvironment # NoEnvironment
                        THEN [call EXCEPT !.stage = "resolved",
                                          !.returned = cachedEnvironment]
                        ELSE [Notify(call, "python", "running")
                                 EXCEPT !.stage = "python"]]
    /\ last' = [op |-> "ensure", id |-> c, code |-> 0]
    /\ UNCHANGED <<queue, processing, history, cachedEnvironment, phase,
                   child, chunks, saves, saving, dispatched, completed,
                   emitted>>

\* a stage of a call throws: the error notification, and the call rejects
StageFails(c, stage) ==
    /\ env' = [env EXCEPT
                  !.failurePending = TRUE,
                  !.calls[c] =
                     [Notify(IF stage \in {"uv", "babeldoc"}
                             THEN Notify(@, stage, "running") ELSE @,
                             stage, "error")
                         EXCEPT !.stage = "rejected"]]
    /\ UNCHANGED cachedEnvironment

\* how ensureUvInstalled and ensureBabeldocInstalled can settle: the tool
\* is there, or it is not and its installation, announced through notify,
\* succeeds or fails
InstallOutcomes == {"present", "installed", "failed"}

\* the notification of the announcement
Announce(call, stage, outcome) ==
    IF outcome = "present" THEN call ELSE Notify(call, stage, "running")

\* detectPython settles
DetectPythonDone(c, found) ==
    /\ env.calls[c].stage = "python"
    /\ IF found = Undefined
       THEN StageFails(c, "python")
       ELSE /\ env' = [env EXCEPT !.calls[c] =
                         [Notify(Notify(@, "python", "success"),
                                 "uv", "running")
                             EXCEPT !.stage = "uv", !.pythonPath = found]]
            /\ UNCHANGED cachedEnvironment
    /\ last' = [op |-> "python", id |-> c, code |-> 0]
    /\ UNCHANGED <<queue, processing, history, phase, child, chunks, saves,
                   saving, dispatched, completed, emitted>>

\* ensureUvInstalled settles
EnsureUvDone(c, outcome) ==
    /\ env.calls[c].stage = "uv"
    /\ IF outcome = "failed"
       THEN StageFails(c, "uv")
       ELSE /\ env' = [env EXCEPT !.calls[c] =
                         [Notify(Notify(Announce(@, "uv", outcome),
                                        "uv", "success"),
                                 "babeldoc", "running")
                             EXCEPT !.stage = "babeldoc"]]
            /\ UNCHANGED cachedEnvironment
    /\ last' = [op |-> "uv", id |-> c, code |-> 0]
    /\ UNCHANGED <<queue, processing, history, phase, child, chunks, saves,
                   saving, dispatched, completed, emitted>>

\* ensureBabeldocInstalled settles
EnsureBabeldocDone(c, outcome) ==
    /\ env.calls[c].stage = "babeldoc"
    /\ IF outcome = "failed"
       THEN StageFails(c, "babeldoc")
       ELSE /\ env' = [env EXCEPT !.calls[c] =
                         [Notify(Notify(Announce(@, "babeldoc", outcome),
                                        "babeldoc", "success"),
                                 "uv-bin-dir", "running")
                             EXCEPT !.stage = "uv-bin-dir"]]
            /\ UNCHANGED cachedEnvironment
    /\ last' = [op |-> "babeldoc", id |-> c, code |-> 0]
    /\ UNCHANGED <<queue, processing, history, phase, child, chunks, saves,
                   saving, dispatched, completed, emitted>>

\* resolveUvBinDir settles: on success the summary is cached and returned
ResolveUvBinDirDone(c, ok) ==
    /\ env.calls[c].stage = "uv-bin-dir"
    /\ IF ~ok
       THEN StageFails(c, "uv-bin-dir")
       ELSE LET summary == Summary(env.calls[c].pythonPath, UvBinDirText)
            IN  /\ env' = [env EXCEPT !.calls[c] =
                             [Notify(@, "uv-bin-dir", "success")
                                 EXCEPT !.stage = "resolved",
                                        !.returned = summary]]
                /\ cachedEnvironment' = summary
    /\ last' = [op |-> "uv-bin-dir", id |-> c, code |-> 0]
    /\ UNCHANGED <<queue, processing, history, phase, child, chunks, saves,
                   saving, dispatched, completed, emitted>>

resetEnvironmentCache ==
    /\ cachedEnvironment' = NoEnvironment
    /\ env' = [env EXCEPT !.resetPending = TRUE, !.failurePending = FALSE]
    /\ last' = [op |-> "reset", id |-> 0, code |-> 0]
    /\ UNCHANGED <<queue, processing, history, phase, child, chunks, saves,
                   saving, dispatched, completed, emitted>>

\* --------------------------------------------------- translation.ts
\* the one element of a singleton set.  The statements of a handler are
\* written The({ ... : w \in {w0} }): the data w0 the handler is entered
\* with is evaluated once and named w
The(S) == CHOOSE r \in S : TRUE

\* The manager's data, threaded through the statements of one task:
\*   w.queue, w.history, w.emitted, w.completed
\* `BabelDOC <exit code> ${code}` (the source text is Chinese)
ExitMessage(code) == "BabelDOC exit code " \o ToString(code)

OutputDirOf(id) == "userData/translations/" \o ToString(id)

\* `<run command>: ${command} ${args.join(" ")}`
CommandLine(id) == "run: babeldoc --files " \o ToString(id)

Emit(w0, payload) ==
    The({
        [w EXCEPT !.emitted = Append(@, payload)]
        : w \in {w0} })

emitStatus(w0, id, status, progress) ==
    The({
        LET payload == IF progress # NoProgress
                       THEN [type |-> "status", id |-> id, status |-> status,
                             progress |-> progress]
                       ELSE [type |-> "status", id |-> id, status |-> status]
            w1 == Emit(w, payload)
            k == FindById(w1.queue, id)
            q1 == IF k = 0 THEN w1.queue
                  ELSE [w1.queue EXCEPT
                          ![k].status = status,
                          ![k].progress = IF progress # NoProgress
                                          THEN progress ELSE @]
            data == IF progress # NoProgress
                    THEN [status |-> status, progress |-> progress]
                    ELSE [status |-> status]
        IN  [w1 EXCEPT !.queue = q1,
                       !.history = updateHistoryRecord(@, id, data)]
        : w \in {w0} })

emitProgress(w0, payload) ==
    The({
        Emit(w, [type |-> "progress", id |-> payload.id,
                 message |-> payload.message])
        : w \in {w0} })

emitCompleted(w0, payload) ==
    The({
        [Emit(w, [type |-> "completed"] @@ payload)
            EXCEPT !.completed[payload.id] = Append(@, payload)]
        : w \in {w0} })

\* parseFloat of a text that does not start with a number
NaNTenths == -2

\* parseFloat of the capture group of /'overall_progress':\s*([\d.]+)/ in
\* tenths; -1 when the pattern does not match
OverallProgressMatch(logLine) ==
    CASE logLine = TextDebug -> 748
      [] logLine = TextDebugLow -> 125
      [] logLine = TextDebugOver -> 2500
      [] logLine = TextDebugEdge -> 1004
      [] logLine = TextDebugDot -> NaNTenths
      [] OTHER -> -1

\* Math.round(parseFloat(s)) of a non-negative decimal given in tenths
RoundTenths(t) == (t + 5) \div 10

\* mutant: the structured rule reports the job as "queued"
tryParseDebugProgressQueued(w0, k, logLine) ==
    The({
        LET job == w.queue[k]
            m == OverallProgressMatch(logLine)
            overallProgress == RoundTenths(m)
        IN  IF m = -1 THEN w
            ELSE IF m # NaNTenths /\ overallProgress > job.progress
                    /\ overallProgress <= 100
            THEN emitStatus([w EXCEPT !.queue[k].progress = overallProgress],
                            job.id, "queued", overallProgress)
            ELSE w
        : w \in {w0} })

\* mutant: the structured rule without its `overallProgress <= 100`
tryParseDebugProgressNoCeiling(w0, k, logLine) ==
    The({
        LET job == w.queue[k]
            m == OverallProgressMatch(logLine)
            overallProgress == RoundTenths(m)
        IN  IF m = -1 THEN w
            ELSE IF m # NaNTenths /\ overallProgress > job.progress
            THEN emitStatus([w EXCEPT !.queue[k].progress = overallProgress],
                            job.id, job.status, overallProgress)
            ELSE w
        : w \in {w0} })

tryParseDebugProgress(w0, k, logLine) ==
    The({
        LET job == w.queue[k]
            m == OverallProgressMatch(logLine)
            overallProgress == RoundTenths(m)
        IN  IF m = -1 THEN w
            ELSE IF m # NaNTenths /\ overallProgress > job.progress
                    /\ overallProgress <= 100
            THEN emitStatus([w EXCEPT !.queue[k].progress = overallProgress],
                            job.id, job.status, overallProgress)
            ELSE w
        : w \in {w0} })

\* progressStages: the milestone of each row, in table order
progressStages == <<5, 8, 15, 25, 35, 40, 50, 60, 85, 90, 95, 98>>

\* the rows whose pattern matches the line
StageMatches(logLine) ==
    CASE logLine = TextDebug -> {8}
      [] logLine = TextDebugLow -> {4}
      [] logLine = TextStart -> {1}
      [] logLine = TextTranslate -> {8}
      [] logLine = TextTypeset -> {10, 11}
      [] OTHER -> {}

\* mutant: the fallback rule without its `stage.progress > job.progress`
tryUpdateProgressFromLogAlways(w0, k, logLine) ==
    The({
        LET job == w.queue[k]
            rows == StageMatches(logLine)
        IN  IF rows = {} THEN w
            ELSE LET r == CHOOSE x \in rows : \A y \in rows : x <= y
                     p == progressStages[r]
                 IN  emitStatus([w EXCEPT !.queue[k].progress = p],
                                job.id, job.status, p)
        : w \in {w0} })

\* mutant: the fallback rule without its `break`: a row that matches but
\* does not raise the progress is passed over
tryUpdateProgressFromLogNoBreak(w0, k, logLine) ==
    The({
        LET job == w.queue[k]
            rows == {x \in StageMatches(logLine) :
                        progressStages[x] > job.progress}
        IN  IF rows = {} THEN w
            ELSE LET r == CHOOSE x \in rows : \A y \in rows : x <= y
                     p == progressStages[r]
                 IN  emitStatus([w EXCEPT !.queue[k].progress = p],
                                job.id, job.status, p)
        : w \in {w0} })

tryUpdateProgressFromLog(w0, k, logLine) ==
    The({
        LET job == w.queue[k]
            rows == StageMatches(logLine)
        IN  IF rows = {} THEN w
            ELSE LET r == CHOOSE x \in rows : \A y \in rows : x <= y
                     p == progressStages[r]
                 IN  IF p > job.progress
                     THEN emitStatus([w EXCEPT !.queue[k].progress = p],
                                     job.id, job.status, p)
                     ELSE w
        : w \in {w0} })

\* mutant: over the cap the newest entries are dropped, not the oldest
PushCappedKeepOldest(logs, entry) ==
    LET all == Append(logs, entry)
    IN  IF Len(all) > LogCap THEN SubSeq(all, 1, LogCap) ELSE all

\* logs.push(trimmed); logs.splice(0, logs.length - 500) when over 500
PushCapped(logs, entry) ==
    LET all == Append(logs, entry)
    IN  IF Len(all) > LogCap
        THEN SubSeq(all, Len(all) - LogCap + 1, Len(all))
        ELSE all

appendLog(w0, k, message) ==
    The({
        LET trimmed == Trim(message)
            job == w.queue[k]
            logs1 == PushCapped(job.logs, trimmed)
            w1 == [w EXCEPT !.queue[k].logs = logs1]
            w2 == emitProgress(w1, [id |-> job.id, message |-> trimmed])
            w3 == [w2 EXCEPT !.history =
                      updateHistoryRecord(@, job.id, [logs |-> logs1])]
            w4 == tryParseDebugProgress(w3, k, trimmed)
        IN  IF trimmed = "" THEN w
            ELSE tryUpdateProgressFromLog(w4, k, trimmed)
        : w \in {w0} })

\* the manager's data at the start of a task
World ==
    [queue |-> queue, history |-> history, emitted |-> <<>>,
     completed |-> completed, processing |-> processing,
     phase |-> phase, dispatched |-> dispatched]

Commit(w0) ==
    \E w \in {w0} :
    /\ queue' = w.queue
    /\ history' = w.history
    /\ emitted' = w.emitted
    /\ completed' = w.completed
    /\ processing' = w.processing
    /\ phase' = w.phase
    /\ dispatched' = w.dispatched

\* runJob up to its first await: createHistorySkeleton when the history has
\* no record of the job, ensureEnvironment otherwise
runJobEnter(w0, k) ==
    The({
        LET id == w.queue[k].id
            w1 == [w EXCEPT !.queue[k].status = "running",
                            !.queue[k].logs = <<>>]
            w2 == emitStatus(w1, id, "running", 0)
            existingRecord == HasRecord(w2.history, id)
            w3 == [w2 EXCEPT !.history = updateHistoryRecord(@, id,
                      [status |-> "running", logs |-> <<>>, progress |-> 0])]
        IN  [w3 EXCEPT !.phase[id] = IF existingRecord THEN "env" ELSE "skeleton",
                       !.dispatched = Append(@, id)]
        : w \in {w0} })

\* mutant: processNext without its `if (this.processing) return`
processNextNoGuard(w0) ==
    The({
        LET k == FindQueued(w.queue)
        IN  IF k = 0 THEN [w EXCEPT !.processing = FALSE]
            ELSE runJobEnter([w EXCEPT !.processing = TRUE], k)
        : w \in {w0} })

processNext(w0) ==
    The({
        IF w.processing THEN w
        ELSE LET k == FindQueued(w.queue)
             IN  IF k = 0 THEN [w EXCEPT !.processing = FALSE]
                 ELSE runJobEnter([w EXCEPT !.processing = TRUE], k)
        : w \in {w0} })

\* mutant: processNext without the .catch on runJob: a rejection leaves
\* the flag set and queues nothing
processNextResumeNoCatch(w0, id, how) ==
    The({
        IF how = "rejected" THEN [w EXCEPT !.phase[id] = how]
        ELSE processNext([w EXCEPT !.phase[id] = how, !.processing = FALSE])
        : w \in {w0} })

\* runJob's promise settles (how = "resolved" or "rejected"): processNext
\* resumes after its await, clears the flag and queues processNext again
processNextResume(w0, id, how) ==
    The({
        processNext([w EXCEPT !.phase[id] = how, !.processing = FALSE])
        : w \in {w0} })

\* settling a promise that is already settled does nothing
Settle(w0, id, how) ==
    The({
        IF w.phase[id] = "child" THEN processNextResume(w, id, how) ELSE w
        : w \in {w0} })

NewItem(id, filePath) ==
    [id |-> id, filePath |-> filePath, status |-> "queued", progress |-> 0,
     logs |-> <<>>, outputDir |-> Undefined, savePath |-> Undefined,
     error |-> Undefined]

\* mutant: the new item is put at the head of the queue
enqueueUnshift(w0, filePath) ==
    The({
        LET id == Len(w.queue) + 1
            w1 == [w EXCEPT !.queue = <<NewItem(id, filePath)>> \o @]
            w2 == emitStatus(w1, id, "queued", 0)
        IN  processNext(w2)
        : w \in {w0} })

enqueue(w0, filePath) ==
    The({
        LET id == Len(w.queue) + 1
            w1 == [w EXCEPT !.queue = Append(@, NewItem(id, filePath))]
            w2 == emitStatus(w1, id, "queued", 0)
        IN  processNext(w2)
        : w \in {w0} })

Enqueue(filePath) ==
    /\ Len(queue) < MaxJobs
    /\ Commit(enqueue(World, filePath))
    /\ last' = [op |-> "enqueue", id |-> Len(queue) + 1, code |-> 0]
    /\ UNCHANGED <<cachedEnvironment, env, child, chunks, saves, saving>>

\* createHistorySkeleton(job, "running")
createHistorySkeleton(job, status) ==
    [id |-> job.id, sourcePath |-> job.filePath, translatedPath |-> Undefined,
     status |-> status, progress |-> job.progress, logs |-> job.logs]

\* createHistorySkeleton resolves: appendHistory, getSettings, and the call
\* of ensureEnvironment
SkeletonDone(id) ==
    /\ phase[id] = "skeleton"
    /\ LET k == FindById(queue, id)
           record == createHistorySkeleton(queue[k], "running")
       IN  Commit([World EXCEPT !.history = appendHistory(@, record),
                                !.phase[id] = "env"])
    /\ last' = [op |-> "skeleton", id |-> id, code |-> 0]
    /\ UNCHANGED <<cachedEnvironment, env, child, chunks, saves, saving>>

\* ensureEnvironment rejects: nothing in runJob catches it
EnvRejected(id) ==
    /\ phase[id] = "env"
    /\ cachedEnvironment = NoEnvironment
    /\ Commit(processNextResume(World, id, "rejected"))
    /\ last' = [op |-> "envRejected", id |-> id, code |-> 0]
    /\ UNCHANGED <<cachedEnvironment, env, child, chunks, saves, saving>>

\* what the statements after the await of ensureEnvironment do
SpawnOutcomes == {"mkdirThrows", "spawnThrows", "spawnFails", "spawned"}

runJobSpawn(w0, id, outcome) ==
    The({
        LET k == FindById(w.queue, id)
            w1 == appendLog(w, k, CommandLine(id))
        IN  CASE outcome = "mkdirThrows" -> processNextResume(w, id, "rejected")
              [] outcome = "spawnThrows" -> processNextResume(w1, id, "rejected")
              [] OTHER -> [w1 EXCEPT !.phase[id] = "child"]
        : w \in {w0} })

EnvResolved(id, outcome) ==
    /\ phase[id] = "env"
    /\ cachedEnvironment' = IF cachedEnvironment = NoEnvironment
                            THEN ResolvedSummary ELSE cachedEnvironment
    /\ Commit(runJobSpawn(World, id, outcome))
    /\ child' = [child EXCEPT ![id] =
                    CASE outcome = "spawned" -> "alive"
                      [] outcome = "spawnFails" -> "spawnFailed"
                      [] OTHER -> @]
    /\ last' = [op |-> outcome, id |-> id, code |-> 0]
    /\ UNCHANGED <<env, chunks, saves, saving>>

\* child.stdout / child.stderr "data"
ChildData(id, chunk) ==
    /\ child[id] = "alive"
    /\ chunks < MaxChunks
    /\ Commit(appendLog(World, FindById(queue, id), Trim(chunk)))
    /\ chunks' = chunks + 1
    /\ last' = [op |-> "data", id |-> id, code |-> 0]
    /\ UNCHANGED <<cachedEnvironment, env, child, saves, saving>>

\* mutant: the close handler does not record the output directory
onCloseOkNoOutputDir(w0, id) ==
    The({
        LET k == FindById(w.queue, id)
            outputDir == OutputDirOf(id)
            w1 == [w EXCEPT !.queue[k].status = "awaiting-user",
                            !.queue[k].progress = 100,
                            !.queue[k].error = Undefined]
            w2 == emitStatus(w1, id, "awaiting-user", 100)
            w3 == [w2 EXCEPT !.history = updateHistoryRecord(@, id,
                      [status |-> "awaiting-user", translatedPath |-> outputDir,
                       logs |-> w2.queue[k].logs, progress |-> 100])]
            w4 == emitCompleted(w3, [id |-> id, success |-> TRUE,
                                     outputDir |-> outputDir])
        IN  Settle(w4, id, "resolved")
        : w \in {w0} })

\* mutant: the close handler resolves the run before it emits completed
onCloseOkSettlesFirst(w0, id) ==
    The({
        LET k == FindById(w.queue, id)
            outputDir == OutputDirOf(id)
            w1 == [w EXCEPT !.queue[k].status = "awaiting-user",
                            !.queue[k].progress = 100,
                            !.queue[k].outputDir = outputDir,
                            !.queue[k].error = Undefined]
            w2 == emitStatus(w1, id, "awaiting-user", 100)
            w3 == [w2 EXCEPT !.history = updateHistoryRecord(@, id,
                      [status |-> "awaiting-user", translatedPath |-> outputDir,
                       logs |-> w2.queue[k].logs, progress |-> 100])]
            w4 == Settle(w3, id, "resolved")
        IN  emitCompleted(w4, [id |-> id, success |-> TRUE,
                               outputDir |-> outputDir])
        : w \in {w0} })

\* the close handler for code 0 up to its emitCompleted
onCloseOkOutcome(w0, id) ==
    The({
        LET k == FindById(w.queue, id)
            outputDir == OutputDirOf(id)
            w1 == [w EXCEPT !.queue[k].status = "awaiting-user",
                            !.queue[k].progress = 100,
                            !.queue[k].outputDir = outputDir,
                            !.queue[k].error = Undefined]
            w2 == emitStatus(w1, id, "awaiting-user", 100)
        IN  [w2 EXCEPT !.history = updateHistoryRecord(@, id,
                [status |-> "awaiting-user", translatedPath |-> outputDir,
                 logs |-> w2.queue[k].logs, progress |-> 100])]
        : w \in {w0} })

onCloseOk(w0, id) ==
    The({
        LET w4 == emitCompleted(onCloseOkOutcome(w, id),
                                [id |-> id, success |-> TRUE,
                                 outputDir |-> OutputDirOf(id)])
        IN  Settle(w4, id, "resolved")
        : w \in {w0} })

\* mutant: a failure starts the job's logs afresh
onFailureResetsLogs(w0, id, errorMessage) ==
    The({
        LET k == FindById(w.queue, id)
            w1 == [w EXCEPT !.queue[k].status = "failed",
                            !.queue[k].progress = 100,
                            !.queue[k].error = errorMessage,
                            !.queue[k].logs = <<>>]
            w2 == emitStatus(w1, id, "failed", 100)
            w3 == appendLog(w2, k, errorMessage)
            w4 == [w3 EXCEPT !.history = updateHistoryRecord(@, id,
                      [status |-> "failed", errorMessage |-> errorMessage,
                       logs |-> w3.queue[k].logs, progress |-> 100])]
            w5 == emitCompleted(w4, [id |-> id, success |-> FALSE,
                                     error |-> errorMessage])
        IN  Settle(w5, id, "rejected")
        : w \in {w0} })

\* mutant: a failed job is put back in line for another run
onFailureRequeues(w0, id, errorMessage) ==
    The({
        LET k == FindById(w.queue, id)
            w1 == [w EXCEPT !.queue[k].status = "failed",
                            !.queue[k].progress = 100,
                            !.queue[k].error = errorMessage]
            w2 == emitStatus(w1, id, "failed", 100)
            w3 == appendLog(w2, k, errorMessage)
            w4 == [w3 EXCEPT !.history = updateHistoryRecord(@, id,
                      [status |-> "failed", errorMessage |-> errorMessage,
                       logs |-> w3.queue[k].logs, progress |-> 100])]
            w5 == emitCompleted(w4, [id |-> id, success |-> FALSE,
                                     error |-> errorMessage])
        IN  Settle([w5 EXCEPT !.queue[k].status = "queued"], id, "rejected")
        : w \in {w0} })

\* mutant: the failure branch does not write the outcome to the history
\* record before it emits completed
onFailureOutcomeLate(w0, id, errorMessage) ==
    The({
        LET k == FindById(w.queue, id)
            w1 == [w EXCEPT !.queue[k].status = "failed",
                            !.queue[k].progress = 100,
                            !.queue[k].error = errorMessage]
            w2 == emitStatus(w1, id, "failed", 100)
        IN  appendLog(w2, k, errorMessage)
        : w \in {w0} })

\* the failure branch shared by the close handler and the error handler,
\* up to its emitCompleted
onFailureOutcome(w0, id, errorMessage) ==
    The({
        LET k == FindById(w.queue, id)
            w1 == [w EXCEPT !.queue[k].status = "failed",
                            !.queue[k].progress = 100,
                            !.queue[k].error = errorMessage]
            w2 == emitStatus(w1, id, "failed", 100)
            w3 == appendLog(w2, k, errorMessage)
        IN  [w3 EXCEPT !.history = updateHistoryRecord(@, id,
                [status |-> "failed", errorMessage |-> errorMessage,
                 logs |-> w3.queue[k].logs, progress |-> 100])]
        : w \in {w0} })

onFailure(w0, id, errorMessage) ==
    The({
        LET w5 == emitCompleted(onFailureOutcome(w, id, errorMessage),
                                [id |-> id, success |-> FALSE,
                                 error |-> errorMessage])
        IN  Settle(w5, id, "rejected")
        : w \in {w0} })

onClose(w0, id, code) ==
    The({
        IF code = 0 THEN onCloseOk(w, id)
        ELSE onFailure(w, id, ExitMessage(code))
        : w \in {w0} })

\* child "close".  A child that could not be started emits "error" and
\* then "close" with the negative errno as its code.
ChildClose(id, code) ==
    /\ \/ child[id] = "alive" /\ code \in ExitCodes
       \/ child[id] = "errored" /\ code = SpawnFailCode
    /\ Commit(onClose(World, id, code))
    /\ child' = [child EXCEPT ![id] = "closed"]
    /\ last' = [op |-> "close", id |-> id, code |-> code]
    /\ UNCHANGED <<cachedEnvironment, env, chunks, saves, saving>>

onError(w0, id, message) ==
    The({
        onFailure(w, id, message)
        : w \in {w0} })

\* child "error": the process could not be spawned
ChildError(id) ==
    /\ child[id] = "spawnFailed"
    /\ Commit(onError(World, id, SpawnErrorText))
    /\ child' = [child EXCEPT ![id] = "errored"]
    /\ last' = [op |-> "error", id |-> id, code |-> 0]
    /\ UNCHANGED <<cachedEnvironment, env, chunks, saves, saving>>

\* mutant: markJobSaved without `delete job.error`
markJobSavedKeepsError(w0, jobId, savePath) ==
    The({
        LET k == FindById(w.queue, jobId)
            w1 == [w EXCEPT !.queue[k].status = "success",
                            !.queue[k].progress = 100,
                            !.queue[k].savePath = savePath]
        IN  IF k = 0 THEN w ELSE emitStatus(w1, jobId, "success", 100)
        : w \in {w0} })

\* mutant: markJobSaved also notes the save in the job's logs
markJobSavedLogs(w0, jobId, savePath) ==
    The({
        LET k == FindById(w.queue, jobId)
            w1 == [w EXCEPT !.queue[k].status = "success",
                            !.queue[k].progress = 100,
                            !.queue[k].savePath = savePath,
                            !.queue[k].error = Undefined,
                            !.queue[k].logs = Append(@, savePath)]
        IN  IF k = 0 THEN w ELSE emitStatus(w1, jobId, "success", 100)
        : w \in {w0} })

\* mutant: markJobSaved moves the saved job to the end of the queue
markJobSavedMovesLast(w0, jobId, savePath) ==
    The({
        LET k == FindById(w.queue, jobId)
            w1 == [w EXCEPT !.queue[k].status = "success",
                            !.queue[k].progress = 100,
                            !.queue[k].savePath = savePath,
                            !.queue[k].error = Undefined]
            w2 == emitStatus(w1, jobId, "success", 100)
            others == SelectSeq(w2.queue, LAMBDA job : job.id # jobId)
        IN  IF k = 0 THEN w
            ELSE [w2 EXCEPT !.queue = Append(others, w2.queue[k])]
        : w \in {w0} })

\* mutant: markJobSaved hands the job back to the user
markJobSavedAwaiting(w0, jobId, savePath) ==
    The({
        LET k == FindById(w.queue, jobId)
            w1 == [w EXCEPT !.queue[k].status = "awaiting-user",
                            !.queue[k].progress = 100,
                            !.queue[k].savePath = savePath,
                            !.queue[k].error = Undefined]
        IN  IF k = 0 THEN w ELSE emitStatus(w1, jobId, "awaiting-user", 100)
        : w \in {w0} })

\* mutant: markJobSaved without `job.progress = 100`
markJobSavedKeepsProgress(w0, jobId, savePath) ==
    The({
        LET k == FindById(w.queue, jobId)
            w1 == [w EXCEPT !.queue[k].status = "success",
                            !.queue[k].savePath = savePath,
                            !.queue[k].error = Undefined]
        IN  IF k = 0 THEN w
            ELSE emitStatus(w1, jobId, "success", NoProgress)
        : w \in {w0} })

\* mutant: markJobSaved without `if (!job) return null`
markJobSavedNoGuard(w0, jobId, savePath) ==
    The({
        LET k == FindById(w.queue, jobId)
            w1 == [w EXCEPT !.queue[k].status = "success",
                            !.queue[k].progress = 100,
                            !.queue[k].savePath = savePath,
                            !.queue[k].error = Undefined]
        IN  emitStatus(IF k = 0 THEN w ELSE w1, jobId, "success", 100)
        : w \in {w0} })

markJobSaved(w0, jobId, savePath) ==
    The({
        LET k == FindById(w.queue, jobId)
            w1 == [w EXCEPT !.queue[k].status = "success",
                            !.queue[k].progress = 100,
                            !.queue[k].savePath = savePath,
                            !.queue[k].error = Undefined]
        IN  IF k = 0 THEN w ELSE emitStatus(w1, jobId, "success", 100)
        : w \in {w0} })

MarkJobSaved(jobId, savePath) ==
    /\ saves < MaxSaves
    /\ Commit(markJobSaved(World, jobId, savePath))
    /\ saves' = saves + 1
    /\ last' = [op |-> "markJobSaved", id |-> jobId, code |-> 0]
    /\ UNCHANGED <<cachedEnvironment, env, child, chunks, saving>>

Init ==
    /\ queue = <<>>
    /\ processing = FALSE
    /\ history = <<>>
    /\ cachedEnvironment = NoEnvironment
    /\ env = EnvIdle
    /\ phase = [id \in Ids |-> "none"]
    /\ child = [id \in Ids |-> "none"]
    /\ chunks = 0
    /\ saves = 0
    /\ saving = <<>>
    /\ dispatched = <<>>
    /\ completed = [id \in Ids |-> <<>>]
    /\ emitted = <<>>
    /\ last = [op |-> "init", id |-> 0, code |-> 0]

Next ==
    \/ \E f \in FilePaths : Enqueue(f)
    \/ \E id \in Ids : SkeletonDone(id)
    \/ \E id \in Ids : EnvRejected(id)
    \/ \E id \in Ids, o \in SpawnOutcomes : EnvResolved(id, o)
    \/ \E id \in Ids, c \in Chunks : ChildData(id, c)
    \/ \E id \in Ids, code \in ExitCodes \cup {SpawnFailCode} :
           ChildClose(id, code)
    \/ \E id \in Ids : ChildError(id)
    \/ \E id \in Ids, p \in SavePaths : MarkJobSaved(id, p)

Spec == Init /\ [][Next]_vars

\* environment resolution terminates, createHistorySkeleton terminates, and
\* every child emits its pending "error" and "close"
Fairness ==
    /\ \A id \in Ids : WF_vars(SkeletonDone(id))
    /\ \A id \in Ids :
          WF_vars(EnvRejected(id) \/ \E o \in SpawnOutcomes : EnvResolved(id, o))
    /\ \A id \in Ids : WF_vars(ChildError(id))
    /\ \A id \in Ids :
          WF_vars(\E code \in ExitCodes \cup {SpawnFailCode} :
                      ChildClose(id, code))

FairSpec == Spec /\ Fairness

\* ------------------------------------------- the progress interpreter
\* one line of the child's output reaches appendLog
ChildLine(id, line) ==
    /\ child[id] = "alive"
    /\ chunks < MaxLines
    /\ Commit(appendLog(World, FindById(queue, id), Trim(line)))
    /\ chunks' = chunks + 1
    /\ last' = [op |-> "data", id |-> id, code |-> 0]
    /\ UNCHANGED <<cachedEnvironment, env, child, saves, saving>>

\* the manager when the child of its first job has just been spawned
InterpInit ==
    /\ queue = <<[NewItem(1, "/docs/a.pdf") EXCEPT
                     !.status = "running", !.logs = <<CommandLine(1)>>]>>
    /\ processing = TRUE
    /\ history = <<[id |-> 1, sourcePath |-> "/docs/a.pdf",
                    translatedPath |-> Undefined, status |-> "running",
                    progress |-> 0, logs |-> <<CommandLine(1)>>]>>
    /\ cachedEnvironment = ResolvedSummary
    /\ env = EnvIdle
    /\ phase = [id \in Ids |-> IF id = 1 THEN "child" ELSE "none"]
    /\ child = [id \in Ids |-> IF id = 1 THEN "alive" ELSE "none"]
    /\ chunks = 0
    /\ saves = 0
    /\ saving = <<>>
    /\ dispatched = <<1>>
    /\ completed = [id \in Ids |-> <<>>]
    /\ emitted = <<[type |-> "progress", id |-> 1,
                    message |-> CommandLine(1)]>>
    /\ last = [op |-> "spawned", id |-> 1, code |-> 0]

InterpNext ==
    \/ \E id \in Ids, line \in Lines : ChildLine(id, line)
    \/ \E id \in Ids, code \in ExitCodes : ChildClose(id, code)
    \/ \E id \in Ids, p \in SavePaths : MarkJobSaved(id, p)

InterpSpec == InterpInit /\ [][InterpNext]_vars

\* ------------------------------------------ the environment provisioner
EnvNext ==
    \/ \E c \in EnvCalls : EnsureStart(c)
    \/ \E c \in EnvCalls, found \in PythonCandidates \cup {Undefined} :
           DetectPythonDone(c, found)
    \/ \E c \in EnvCalls, o \in InstallOutcomes : EnsureUvDone(c, o)
    \/ \E c \in EnvCalls, o \in InstallOutcomes : EnsureBabeldocDone(c, o)
    \/ \E c \in EnvCalls, ok \in BOOLEAN : ResolveUvBinDirDone(c, ok)
    \/ resetEnvironmentCache

EnvSpec == Init /\ [][EnvNext]_vars

\* --------------------------------------------------- the save operation
\* what markJobSaved returns: the place of the job in the queue, 0 for null
markJobSavedReturn(q, jobId) == FindById(q, jobId)

\* a call of markJobSaved; last.again tells that the task before it was a
\* call with the same id and path
MarkJobSavedCall(jobId, savePath) ==
    /\ saves < MaxSaveCalls
    /\ Commit(markJobSaved(World, jobId, savePath))
    /\ saves' = saves + 1
    /\ last' = [op |-> "markJobSaved", id |-> jobId, code |-> 0,
                path |-> savePath,
                returned |-> markJobSavedReturn(queue, jobId),
                again |-> /\ last.op = "markJobSaved"
                          /\ last.id = jobId
                          /\ last.path = savePath]
    /\ UNCHANGED <<cachedEnvironment, env, child, chunks, saving>>

SaveNext ==
    \/ \E id \in Ids, c \in Chunks : ChildData(id, c)
    \/ \E id \in Ids, code \in ExitCodes : ChildClose(id, code)
    \/ \E id \in Ids, p \in SaveTargets : MarkJobSavedCall(id, p)

SaveSpec == InterpInit /\ [][SaveNext]_vars

\* ---------------------------------------------------- the history store
\* a long session: the caller enqueues a file whenever the manager is
\* idle, and every run ends with exit code 0
ManyIds == 1..(HistoryCap + HistoryExtra)

EnqueueIdle(filePath) ==
    /\ ~processing
    /\ Len(queue) < HistoryCap + HistoryExtra
    /\ Commit(enqueue(World, filePath))
    /\ last' = [op |-> "enqueue", id |-> Len(queue) + 1, code |-> 0]
    /\ UNCHANGED <<cachedEnvironment, env, child, chunks, saves, saving>>

HistoryInit ==
    /\ queue = <<>>
    /\ processing = FALSE
    /\ history = <<>>
    /\ cachedEnvironment = NoEnvironment
    /\ env = EnvIdle
    /\ phase = [id \in ManyIds |-> "none"]
    /\ child = [id \in ManyIds |-> "none"]
    /\ chunks = 0
    /\ saves = 0
    /\ saving = <<>>
    /\ dispatched = <<>>
    /\ completed = [id \in ManyIds |-> <<>>]
    /\ emitted = <<>>
    /\ last = [op |-> "init", id |-> 0, code |-> 0]

HistoryNext ==
    \/ \E f \in FilePaths : EnqueueIdle(f)
    \/ \E id \in ManyIds : SkeletonDone(id)
    \/ \E id \in ManyIds : EnvResolved(id, "spawned")
    \/ \E id \in ManyIds : ChildClose(id, 0)

HistorySpec == HistoryInit /\ [][HistoryNext]_vars

\* ------------------------------------------------------ the log buffer
\* the n-th line a chatty child writes
NumberedLine(n) == "line " \o ToString(n)

ChildNumbered(id) ==
    /\ child[id] = "alive"
    /\ chunks < LogCap + LogExtra
    /\ Commit(appendLog(World, FindById(queue, id), NumberedLine(chunks + 1)))
    /\ chunks' = chunks + 1
    /\ last' = [op |-> "data", id |-> id, code |-> 0]
    /\ UNCHANGED <<cachedEnvironment, env, child, saves, saving>>

LogNext ==
    \/ \E id \in Ids : ChildNumbered(id)
    \/ \E id \in Ids, code \in ExitCodes : ChildClose(id, code)

LogSpec == InterpInit /\ [][LogNext]_vars

\* what getQueue returns: the queue itself
getQueue == queue

\* ------------------------------------------------------------ properties
Running == {i \in DOMAIN queue : queue[i].status = "running"}

WasDispatched(id) == \E i \in DOMAIN dispatched : dispatched[i] = id

\* the job with this id, once it is in the queue
JobOf(id) == queue[FindById(queue, id)]

\* C1: at most one job of the queue has status "running"
C1_SingleRunning == Cardinality(Running) <= 1

\* C2 (amended): at most one child process that was really started is alive
C2_OneProcessAlive ==
    Cardinality({id \in Ids : child[id] = "alive"}) <= 1

\* C2 (as claimed): at most one spawned child has not yet emitted "close"
C2_OneChildNotClosed ==
    Cardinality({id \in Ids :
                    child[id] \in {"alive", "spawnFailed", "errored"}}) <= 1

\* C2 witness: a process is alive while the child of an earlier job, which
\* failed to spawn, has emitted "error" and not yet "close"
C2_Witness ==
    \E a, b \in Ids : a < b /\ child[a] = "errored" /\ child[b] = "alive"

\* C3: jobs enter runJob in the order of their enqueue calls, and a job is
\* never started while a job enqueued before it is still queued
C3_FifoOrder ==
    /\ \A a, b \in DOMAIN dispatched :
          a < b => dispatched[a] < dispatched[b]
    /\ \A i \in DOMAIN queue :
          queue[i].status = "queued" =>
              \A a \in DOMAIN dispatched : dispatched[a] < queue[i].id

\* C3 witness: three jobs were started one after the other, the first of
\* them having failed
C3_Witness ==
    /\ dispatched = <<1, 2, 3>>
    /\ queue[1].status = "failed"

\* C4 (amended): enqueue appends a record with progress 0 and empty logs
\* and emits status "queued" for it first; the record it returns is
\* "queued" when a job was active at the call and already "running" when
\* the supervisor was idle
C4_EnqueueReturn ==
    [][last'.op = "enqueue" =>
         LET n == Len(queue')
             job == queue'[n]
         IN  /\ n = Len(queue) + 1
             /\ SubSeq(queue', 1, n - 1) = queue
             /\ job.id = last'.id
             /\ job.progress = 0
             /\ job.logs = <<>>
             /\ emitted'[1] = [type |-> "status", id |-> job.id,
                               status |-> "queued", progress |-> 0]
             /\ job.status = IF processing THEN "queued" ELSE "running"]_vars

\* C4 (as claimed): the record enqueue returns has status "queued"
C4_EnqueueReturnsQueued ==
    last.op = "enqueue" => queue[Len(queue)].status = "queued"

\* C4 witness: enqueue has returned a record that is already running
C4_Witness ==
    /\ last.op = "enqueue"
    /\ Len(queue) = 2
    /\ queue[Len(queue)].status = "running"

\* C5: every enqueued job is eventually started (or was marked saved by
\* the caller while it waited), whatever happened to the jobs before it
C5_EveryJobStarts ==
    \A id \in Ids :
        (Len(queue) >= id) ~>
            (WasDispatched(id)
             \/ (Len(queue) >= id /\ queue[id].status = "success"))

\* C5 witness: a job was started after the run of the job before it was
\* rejected
C5_Witness ==
    \E a, b \in Ids :
        a < b /\ phase[a] = "rejected" /\ WasDispatched(b)

\* C6: after ensureEnvironment has failed for a job, the job is "failed"
\* with a non-empty error and progress 100
C6_EnvFailureFailsJob ==
    last.op = "envRejected" =>
        /\ JobOf(last.id).status = "failed"
        /\ JobOf(last.id).error \notin {Undefined, ""}
        /\ JobOf(last.id).progress = 100

\* C7: a job whose run was rejected has had a completed notification with
\* success = false emitted for it
C7_FailureEmitsCompleted ==
    \A id \in Ids :
        phase[id] = "rejected" =>
            \E i \in DOMAIN completed[id] : ~completed[id][i].success

\* C8: after a close with exit code 0 the job is "awaiting-user" with
\* progress 100, its output directory set and no error, and completed with
\* success = true and that directory was emitted
C8_CloseZero ==
    (last.op = "close" /\ last.code = 0) =>
        /\ JobOf(last.id).status = "awaiting-user"
        /\ JobOf(last.id).progress = 100
        /\ JobOf(last.id).outputDir = OutputDirOf(last.id)
        /\ JobOf(last.id).error = Undefined
        /\ \E i \in DOMAIN emitted :
              emitted[i] = [type |-> "completed", id |-> last.id,
                            success |-> TRUE,
                            outputDir |-> OutputDirOf(last.id)]

\* C8 witness: a child has closed with code 0 after it had written output
C8_Witness ==
    /\ last.op = "close"
    /\ last.code = 0
    /\ Len(JobOf(last.id).logs) > 1

\* C9: after a close with a nonzero exit code the job is "failed" with
\* progress 100 and an error naming the code, its logs are the logs it had
\* followed by that error (within the cap of 500 entries), and completed
\* with success = false and that error was emitted
C9_CloseNonzero ==
    [][(last'.op = "close" /\ last'.code # 0) =>
         LET k == FindById(queue, last'.id)
             old == queue[k].logs
             new == queue'[k].logs
             n == Len(new)
             msg == "BabelDOC exit code " \o ToString(last'.code)
         IN  /\ queue'[k].status = "failed"
             /\ queue'[k].progress = 100
             /\ queue'[k].error = msg
             /\ n = Min(Len(old) + 1, LogCap)
             /\ new[n] = msg
             /\ SubSeq(new, 1, n - 1) = SubSeq(old, Len(old) - n + 2, Len(old))
             /\ \E i \in DOMAIN emitted' :
                   emitted'[i] = [type |-> "completed", id |-> last'.id,
                                  success |-> FALSE, error |-> msg]]_vars

\* C9 witness: a child that had written output has closed with code 1
C9_Witness ==
    /\ last.op = "close"
    /\ last.code = 1
    /\ Len(JobOf(last.id).logs) > 2

\* C10: every failed job has a non-empty error, and no job that is
\* "success" or "awaiting-user" has an error
C10_TerminalConsistency ==
    \A i \in DOMAIN queue :
        /\ queue[i].status = "failed" =>
              queue[i].error \notin {Undefined, ""}
        /\ queue[i].status \in {"success", "awaiting-user"} =>
              queue[i].error = Undefined

\* C10 witness: a job that had failed was marked saved
C10_Witness ==
    /\ last.op = "markJobSaved"
    /\ last.id \in DOMAIN queue
    /\ completed[last.id] # <<>>
    /\ ~completed[last.id][1].success
    /\ queue[last.id].status = "success"

\* C11: from its dispatch onwards the progress of a job never decreases,
\* whatever lines, exit events and markJobSaved calls follow
C11_ProgressMonotone ==
    [][\A i \in DOMAIN queue :
          WasDispatched(queue[i].id) =>
              queue'[i].progress >= queue[i].progress]_vars

\* C11 witness: a line of the fallback table with a lower milestone came
\* after a structured line, and the progress is that of the structured line
C11_Witness ==
    \E i \in DOMAIN queue :
        LET logs == queue[i].logs
            n == Len(logs)
        IN  /\ n >= 3
            /\ logs[n - 1] = TextDebug
            /\ logs[n] = TextStart
            /\ queue[i].progress = 75

\* the last n entries of a sequence, all of it when it is shorter
LastN(seq, n) == SubSeq(seq, Len(seq) - Min(Len(seq), n) + 1, Len(seq))

\* every non-empty entry appended to the logs of a job since its dispatch
\* by a child that writes numbered lines: the command line, the lines, and
\* the error message of a failure
Written(i) ==
    <<CommandLine(queue[i].id)>>
    \o [n \in 1..chunks |-> NumberedLine(n)]
    \o (IF queue[i].status = "failed" THEN <<queue[i].error>> ELSE <<>>)

\* C12: the logs of a job never hold more than 500 entries, and they are
\* the most recent 500 (all, while fewer) of the entries appended in the
\* run, in the order they were appended
C12_LogRingBuffer ==
    \A i \in DOMAIN queue :
        /\ Len(queue[i].logs) <= LogCap
        /\ queue[i].logs = LastN(Written(i), LogCap)

\* C12 witness: 502 entries were appended and the two oldest are gone
C12_Witness ==
    /\ chunks = LogCap + 1
    /\ Len(queue[1].logs) = LogCap
    /\ queue[1].logs[1] = NumberedLine(2)
    /\ queue[1].logs[LogCap] = NumberedLine(LogCap + 1)

\* C13: a call of markJobSaved that repeats the call before it, with the
\* same id and path, leaves the queue and the history as the first call
\* left them: the job is "success" with that path, progress 100, no error
C13_MarkSavedIdempotent ==
    [][(last'.op = "markJobSaved" /\ last'.again /\ last'.returned # 0) =>
         /\ queue' = queue
         /\ history' = history
         /\ queue'[last'.returned].status = "success"
         /\ queue'[last'.returned].savePath = last'.path
         /\ queue'[last'.returned].progress = 100
         /\ queue'[last'.returned].error = Undefined]_vars

\* C13 witness: markJobSaved was called twice in a row for a job that had
\* failed
C13_Witness ==
    /\ last.op = "markJobSaved"
    /\ last.again
    /\ last.returned # 0
    /\ completed[last.id] # <<>>
    /\ ~completed[last.id][1].success
    /\ queue[last.returned].status = "success"

\* C14: markJobSaved with an id that is not in the queue returns null and
\* changes nothing: the queue, the processing flag and the history are as
\* before and nothing is emitted
C14_UnknownIdNoOp ==
    [][(last'.op = "markJobSaved" /\ FindById(queue, last'.id) = 0) =>
         /\ last'.returned = 0
         /\ queue' = queue
         /\ processing' = processing
         /\ history' = history
         /\ emitted' = <<>>
         /\ completed' = completed]_vars

\* C14 witness: markJobSaved was called with an unknown id while a job was
\* awaiting the user
C14_Witness ==
    /\ last.op = "markJobSaved"
    /\ last.returned = 0
    /\ queue[1].status = "awaiting-user"

\* C15: getQueue returns the jobs of all enqueue calls in the order of the
\* calls; a step either leaves every entry in its place with its id and
\* file, or is an enqueue that adds one entry at the end
C15_QueueAppendOnly ==
    [][/\ \A i \in DOMAIN getQueue' : getQueue'[i].id = i
       /\ Len(getQueue') >= Len(getQueue)
       /\ \A i \in DOMAIN getQueue :
              /\ getQueue'[i].id = getQueue[i].id
              /\ getQueue'[i].filePath = getQueue[i].filePath
       /\ Len(getQueue') # Len(getQueue) =>
              /\ last'.op = "enqueue"
              /\ Len(getQueue') = Len(getQueue) + 1]_vars

\* C15 witness: a failed job, a saved job and a running job are all in the
\* queue, in the order they were enqueued
C15_Witness ==
    /\ Len(getQueue) = 3
    /\ getQueue[1].status = "failed"
    /\ getQueue[2].status = "success"
    /\ getQueue[3].status = "running"
    /\ \A i \in DOMAIN getQueue : getQueue[i].id = i

\* C16: a job whose status is not "queued" is not "queued" after any step
C16_NoReentryToQueued ==
    [][\A i \in DOMAIN queue :
          queue[i].status # "queued" => queue'[i].status # "queued"]_vars

\* C16 witness: a job was enqueued, and notified as "queued", after an
\* earlier job had failed, a structured line having been read meanwhile
C16_Witness ==
    /\ last.op = "enqueue"
    /\ Len(queue) >= 2
    /\ queue[1].status = "failed"
    /\ queue[1].progress = 100
    /\ \E n \in DOMAIN queue[1].logs : queue[1].logs[n] = TextDebug
    /\ emitted[1].status = "queued"

\* C17 (as claimed): a job that is "success" or "failed" keeps that status
C17_TerminalStatus ==
    [][\A i \in DOMAIN queue :
          queue[i].status \in {"success", "failed"} =>
              queue'[i].status = queue[i].status]_vars

\* C17 (amended): "failed" is left only by markJobSaved of that job, for
\* "success"; "success" is left only by the "error" or "close" of the
\* job's own child, when the job was marked saved before its child closed
C17_TerminalButForSave ==
    [][\A i \in DOMAIN queue :
          LET id == queue[i].id
          IN  /\ (queue[i].status = "failed" /\ queue'[i].status # "failed") =>
                    /\ last'.op = "markJobSaved"
                    /\ last'.id = id
                    /\ queue'[i].status = "success"
              /\ (queue[i].status = "success" /\ queue'[i].status # "success") =>
                    /\ last'.op \in {"close", "error"}
                    /\ last'.id = id
                    /\ child[id] # "closed"]_vars

\* C17 witness: a job that was marked saved while its child was running
\* has failed when the child closed with code 1
C17_Witness ==
    /\ last.op = "close"
    /\ last.code = 1
    /\ JobOf(last.id).savePath # Undefined
    /\ JobOf(last.id).status = "failed"

\* C18 (as claimed): every job that is not "queued" has a history record
C18_StartedJobsHaveRecord ==
    \A i \in DOMAIN queue :
        queue[i].status # "queued" => HasRecord(history, queue[i].id)

\* the jobs whose createHistorySkeleton has resolved, in the order their
\* records were appended
Recorded == SelectSeq(dispatched, LAMBDA id : phase[id] # "skeleton")

\* C18 (amended): the jobs that have a history record are the newest 500
\* of the jobs whose createHistorySkeleton has resolved, the newest first:
\* a running job has none until then, and loses it once 500 records were
\* appended after its own
C18_RecordWhileAmongNewest ==
    LET kept == LastN(Recorded, HistoryCap)
    IN  /\ Len(history) = Len(kept)
        /\ \A n \in DOMAIN history :
               history[n].id = kept[Len(kept) - n + 1]

\* C18 witness: the record of the first job is gone when the 501st job has
\* its record
C18_Witness ==
    /\ Len(queue) = HistoryCap + 1
    /\ queue[1].status = "awaiting-user"
    /\ ~HasRecord(history, 1)
    /\ HasRecord(history, HistoryCap + 1)

\* C19: no job id enters runJob twice, and a child is spawned for a job
\* only if none was spawned for it before
C19_DispatchedOnce ==
    [][/\ \A a, b \in DOMAIN dispatched' :
              a # b => dispatched'[a] # dispatched'[b]
       /\ \A id \in Ids :
              (child'[id] # child[id] /\ child'[id] \in {"alive", "spawnFailed"})
                  => child[id] = "none"]_vars

\* C19 witness: a job has failed and the next has exited with code 0, each
\* was started once, and the manager is idle
C19_Witness ==
    /\ dispatched = <<1, 2>>
    /\ Len(queue) = 2
    /\ queue[1].status = "failed"
    /\ queue[2].status = "awaiting-user"
    /\ child[1] = "closed"
    /\ child[2] = "closed"
    /\ ~processing

\* the call has run the stages from the first one on
RanStages(call) ==
    /\ call.notified # <<>>
    /\ call.notified[1] = <<"python", "running">>

\* a call made while a summary is cached returns that summary at once,
\* with no stage run and nothing notified
C20_CachedAfterSuccess ==
    \A c \in EnvCalls :
        (env.calls[c].stage # "idle"
         /\ env.calls[c].cachedAtStart # NoEnvironment) =>
            /\ env.calls[c].stage = "resolved"
            /\ env.calls[c].returned = env.calls[c].cachedAtStart
            /\ env.calls[c].notified = <<>>

\* the first call made after a call has failed starts from the first stage
C20_FailureNotCached ==
    \A c \in EnvCalls :
        (env.calls[c].stage # "idle" /\ env.calls[c].afterFailure) =>
            RanStages(env.calls[c])

\* the first call made after resetEnvironmentCache runs all stages again
C20_ResetForcesRerun ==
    \A c \in EnvCalls :
        (env.calls[c].stage # "idle" /\ env.calls[c].afterReset) =>
            RanStages(env.calls[c])

\* C20: ensureEnvironment is cached after its first success, a failed call
\* leaves the cache empty so that the next call starts from the first
\* stage, and resetEnvironmentCache makes the next call run all stages
C20_EnvironmentCache ==
    /\ C20_CachedAfterSuccess
    /\ C20_FailureNotCached
    /\ C20_ResetForcesRerun

\* the line the last "data" event passed on to the interpreter: the message
\* of the progress notification appendLog emitted for it
LineRead == emitted'[1].message

\* C21: when the structured rule applies to a line and raises the progress,
\* the progress after the line is the structured value, whatever row of
\* the fallback table the line matches
C21_StopsAtFirstRule ==
    [][(last'.op = "data" /\ emitted' # <<>>) =>
         LET k == FindById(queue, last'.id)
             m == OverallProgressMatch(LineRead)
             overallProgress == RoundTenths(m)
         IN  (m # -1 /\ overallProgress > queue[k].progress
                     /\ overallProgress <= 100)
                 => queue'[k].progress = overallProgress]_vars

Max(a, b) == IF a > b THEN a ELSE b

\* what the structured rule makes of the progress `old` on a line whose
\* value is m tenths: the integer nearest to the value (halves upwards)
\* when the value parses, that integer is above old, and it is at most
\* `ceiling` tenths; old otherwise
Structured(old, m, ceiling) ==
    IF m >= 0 /\ m <= ceiling /\ m >= 10 * old + 5
    THEN CHOOSE n \in 0..100 : 10 * n - 5 <= m /\ m < 10 * n + 5
    ELSE old

\* the job after the structured rule has read the line differs from the
\* job before in its progress only, which is Structured(...)
StructuredRuleGives(ceiling) ==
    \A i \in DOMAIN queue, line \in Lines \ {TextBlank} :
        LET w == tryParseDebugProgress(World, i, line)
            p == Structured(queue[i].progress,
                            OverallProgressMatch(line), ceiling)
        IN  w.queue = [queue EXCEPT ![i].progress = p]

\* a line with the value 74.8 followed by a line worth 60 in the fallback
\* table leaves a progress below 75 at 75
ScenarioGives75 ==
    \A i \in DOMAIN queue :
        LET w1 == appendLog(World, i, TextDebug)
            w2 == appendLog(w1, i, TextTranslate)
        IN  w2.queue[i].progress = Max(75, queue[i].progress)

\* C22 (as claimed): the structured rule takes the values within [0, 100]
C22_WithinRangeOnly ==
    StructuredRuleGives(1000) /\ ScenarioGives75

\* C22 (amended): the structured rule takes the values whose rounding is
\* at most 100, that is the values below 100.5
C22_RoundedAtMost100 ==
    StructuredRuleGives(1004) /\ ScenarioGives75

\* C22 witness: the child wrote the value 74.8 and then a line worth 60,
\* and the progress is 75
C22_Witness ==
    \E i \in DOMAIN queue :
        LET logs == queue[i].logs
            n == Len(logs)
        IN  /\ n >= 3
            /\ logs[n - 1] = TextDebug
            /\ logs[n] = TextTranslate
            /\ queue[i].status = "running"
            /\ queue[i].progress = 75

\* the first row of the table that matches the line, 0 when none does
FirstRow(line) ==
    IF \E r \in DOMAIN progressStages : r \in StageMatches(line)
    THEN CHOOSE r \in DOMAIN progressStages :
             /\ r \in StageMatches(line)
             /\ \A x \in 1..(r - 1) : x \notin StageMatches(line)
    ELSE 0

\* C23: the job after the fallback rule has read a line differs from the
\* job before in its progress only, which is the milestone of the first
\* matching row when that is above the progress, and is unchanged
\* otherwise, whatever later rows match
C23_FirstRowOnly ==
    \A i \in DOMAIN queue, line \in Lines \ {TextBlank} :
        LET w == tryUpdateProgressFromLog(World, i, line)
            r == FirstRow(line)
            old == queue[i].progress
            p == IF r # 0 /\ progressStages[r] > old
                 THEN progressStages[r] ELSE old
        IN  w.queue = [queue EXCEPT ![i].progress = p]

\* C23 witness: a line that matches the rows worth 90 and 95 was read at
\* progress 90 and left it at 90
C23_Witness ==
    \E i \in DOMAIN queue :
        LET logs == queue[i].logs
            n == Len(logs)
        IN  /\ n >= 3
            /\ logs[n - 1] = TextTypeset
            /\ logs[n] = TextTypeset
            /\ queue[i].status = "running"
            /\ queue[i].progress = 90

\* C24 (as claimed): the history record of a job carries the status, the
\* progress and the logs of the job
C24_HistoryMirrorsQueue ==
    \A i \in DOMAIN queue, n \in DOMAIN history :
        history[n].id = queue[i].id =>
            /\ history[n].status = queue[i].status
            /\ history[n].progress = queue[i].progress
            /\ history[n].logs = queue[i].logs

\* the step starts a job while an earlier one was started before it
HandOver == Len(dispatched') = Len(dispatched) + 1 /\ dispatched # <<>>

\* the job started last before the step, and the job the step starts
Previous == dispatched[Len(dispatched)]
Started == dispatched'[Len(dispatched')]

\* the job was started before the job that was started last
Earlier(id) == \E x \in 1..(Len(dispatched) - 1) : dispatched[x] = id

LineBreak == "\n"
Whitespace == {" ", LineBreak}
Output == <<"INFO", " ", "babeldoc", LineBreak,
            "page", " ", "1", LineBreak,
            "all", " ", "done">>

RECURSIVE Join(_)
Join(pieces) ==
    IF pieces = <<>> THEN "" ELSE Head(pieces) \o Join(Tail(pieces))

\* String.prototype.trim on a chunk given by its pieces
TrimChunk(pieces) ==
    LET solid == {i \in DOMAIN pieces : pieces[i] \notin Whitespace}
        first == CHOOSE i \in solid : \A j \in solid : i <= j
        final == CHOOSE i \in solid : \A j \in solid : j <= i
    IN  IF solid = {} THEN <<>> ELSE SubSeq(pieces, first, final)

\* "data" with the next n pieces of the output as one chunk
ChildChunk(id, n) ==
    /\ child[id] = "alive"
    /\ n \in 1..(Len(Output) - chunks)
    /\ Commit(appendLog(World, FindById(queue, id),
                        Join(TrimChunk(SubSeq(Output, chunks + 1,
                                              chunks + n)))))
    /\ chunks' = chunks + n
    /\ last' = [op |-> "data", id |-> id, code |-> 0]
    /\ UNCHANGED <<cachedEnvironment, env, child, saves, saving>>

\* "close" comes after the streams have ended
StreamClose(id, code) ==
    /\ chunks = Len(Output)
    /\ ChildClose(id, code)

ChunkNext ==
    \/ \E id \in Ids, n \in 1..Len(Output) : ChildChunk(id, n)
    \/ \E id \in Ids, code \in ExitCodes : StreamClose(id, code)

ChunkSpec == InterpInit /\ [][ChunkNext]_vars

\* the lines of a text given by its pieces; acc is the line being read
RECURSIVE SplitLines(_, _)
SplitLines(pieces, acc) ==
    IF pieces = <<>>
    THEN IF acc = <<>> THEN <<>> ELSE <<Join(acc)>>
    ELSE IF Head(pieces) = LineBreak
         THEN <<Join(acc)>> \o SplitLines(Tail(pieces), <<>>)
         ELSE SplitLines(Tail(pieces), Append(acc, Head(pieces)))

\* the number of lines terminated within the first n pieces of the output
Terminated(n) == Cardinality({i \in 1..n : Output[i] = LineBreak})

\* C26: the child's output is consumed line by line: while the job runs,
\* the entries after the command line are the lines of the output read so
\* far, one entry per line however the stream is cut into chunks (every line
\* terminated so far, and at the end of the stream the unterminated last
\* line too); when the child has exited with code 0 they are all the lines
\* of the output.
C26_LineByLine ==
    \A k \in DOMAIN queue :
        LET entries == Tail(queue[k].logs)
            all == SplitLines(Output, <<>>)
        IN  /\ queue[k].status = "running" =>
                /\ Len(entries) <= Len(all)
                /\ entries = SubSeq(all, 1, Len(entries))
                /\ \/ Len(entries) = Terminated(chunks)
                   \/ chunks = Len(Output) /\ entries = all
            /\ queue[k].status = "awaiting-user" => entries = all

\* C27: in every reachable state the progress of each job is an integer
\* from 0 to 100, and a job whose status is awaiting-user, success or failed
\* has progress 100.
C27_ProgressRange ==
    \A k \in DOMAIN queue :
        /\ queue[k].progress \in 0..100
        /\ queue[k].status \in {"awaiting-user", "success", "failed"} =>
               queue[k].progress = 100

\* a job that failed after its child wrote a progress value above 100 and
\* one below
C27_Witness ==
    \E k \in DOMAIN queue :
        /\ queue[k].status = "failed"
        /\ queue[k].progress = 100
        /\ \E n \in DOMAIN queue[k].logs : queue[k].logs[n] = TextDebugOver
        /\ \E n \in DOMAIN queue[k].logs : queue[k].logs[n] = TextDebugLow

\* C28: over the lifetime of a job at most one completed notification is
\* emitted for it, whatever events its child emits ("error" followed by
\* "close" included).
C28_AtMostOneCompleted == \A id \in Ids : Len(completed[id]) <= 1

\* the record of the payload's job, when the history has one, carries the
\* outcome the payload announces
RecordCarries(h, payload) ==
    LET i == FindById(h, payload.id)
    IN  i # 0 =>
            /\ h[i].progress = 100
            /\ IF payload.success
               THEN /\ h[i].status = "awaiting-user"
                    /\ "translatedPath" \in DOMAIN h[i]
                    /\ h[i].translatedPath = payload.outputDir
               ELSE /\ h[i].status = "failed"
                    /\ "errorMessage" \in DOMAIN h[i]
                    /\ h[i].errorMessage \notin {Undefined, ""}

\* C29: when a completed notification is emitted for a job, the history
\* record of the job (if there is one) already carries the outcome, both at
\* the point of the handler where emitCompleted is called and at the end of
\* the handler's task: awaiting-user, progress 100 and the output directory
\* as translatedPath for a success; failed, progress 100 and an errorMessage
\* for a failure.  From then on the record never has status "running".
C29_HistoryBeforeCompleted ==
    [][\A id \in Ids :
        /\ Len(completed'[id]) > Len(completed[id]) =>
               LET payload == completed'[id][Len(completed'[id])]
                   moment == IF payload.success
                             THEN onCloseOkOutcome(World, id)
                             ELSE onFailureOutcome(World, id, payload.error)
               IN  /\ RecordCarries(moment.history, payload)
                   /\ RecordCarries(history', payload)
        /\ completed'[id] # <<>> =>
               \A i \in DOMAIN history' :
                   history'[i].id = id => history'[i].status # "running"
      ]_vars

\* a child has just exited with code 1 and the record of its job is failed
\* with the exit message
C29_Witness ==
    /\ last.op = "close"
    /\ last.code = 1
    /\ completed[last.id] # <<>>
    /\ \E i \in DOMAIN history :
           /\ history[i].id = last.id
           /\ history[i].status = "failed"
           /\ history[i].progress = 100
           /\ "errorMessage" \in DOMAIN history[i]
           /\ history[i].errorMessage = ExitMessage(1)

\* ------------------------------------------- the save-output handler
\* the destination as the renderer passes it
Destinations == {"/dest", "'/dest' "}

\* destination.replace(/^["']|["']$/g, "").trim()
CleanDestination(destination) ==
    IF destination = "'/dest' " THEN "/dest'" ELSE destination

\* what existsSync and readdirSync find at record.translatedPath: no
\* directory, no file, the monolingual PDF, or the bilingual PDF as well
DirStates == {"missing", "empty", "mono", "dual"}

\* how the awaited mkdir, deriveDocumentInsight and cp end: files were
\* copied, none was copied, or one of the calls throws
CopyOutcomes == {"copied", "none", "throws"}

\* finalPdfPath || cleanedDestination
PathToSave(cleanedDestination, dir) ==
    IF dir = "dual"
    THEN cleanedDestination \o "/title_zh_dual.pdf"
    ELSE cleanedDestination

\* mutant: the guard without `!record.translatedPath`
saveOutputThrowsNoPath(h, jobId, dir) ==
    \/ FindById(h, jobId) = 0
    \/ dir \in {"missing", "empty"}

\* the throws of the handler before its first await
saveOutputThrows(h, jobId, dir) ==
    \/ FindById(h, jobId) = 0
    \/ h[FindById(h, jobId)].translatedPath \in {Undefined, ""}
    \/ dir \in {"missing", "empty"}

\* the handler after its last await
saveOutputFinish(w0, jobId, pathToSave) ==
    The({
        markJobSaved(
            [w EXCEPT !.history = updateHistoryRecord(@, jobId,
                 [status |-> "success", savePath |-> pathToSave,
                  progress |-> 100])],
            jobId, pathToSave)
        : w \in {w0} })

\* translation:save-output is invoked and runs up to its first await
SaveOutput(jobId, destination, dir) ==
    /\ saves < MaxSaveCalls
    /\ Commit(World)
    /\ saving' = IF saveOutputThrows(history, jobId, dir)
                 THEN saving
                 ELSE Append(saving,
                             [jobId |-> jobId, dir |-> dir,
                              destination |-> CleanDestination(destination)])
    /\ saves' = saves + 1
    /\ last' = [op |-> "save-output", id |-> jobId, code |-> 0,
                raised |-> saveOutputThrows(history, jobId, dir)]
    /\ UNCHANGED <<cachedEnvironment, env, child, chunks>>

\* a suspended call resumes after its copies and runs to its end
SaveOutputDone(i, outcome) ==
    /\ i \in DOMAIN saving
    /\ LET call == saving[i]
           pathToSave == PathToSave(call.destination, call.dir)
       IN  /\ Commit(IF outcome = "copied"
                     THEN saveOutputFinish(World, call.jobId, pathToSave)
                     ELSE World)
           /\ last' = [op |-> "save-output-done", id |-> call.jobId,
                       code |-> 0, raised |-> outcome # "copied",
                       path |-> pathToSave]
    /\ saving' = SubSeq(saving, 1, i - 1) \o SubSeq(saving, i + 1, Len(saving))
    /\ UNCHANGED <<cachedEnvironment, env, child, chunks, saves>>

OutputNext ==
    \/ \E f \in FilePaths : Enqueue(f)
    \/ \E id \in Ids : SkeletonDone(id)
    \/ \E id \in Ids, o \in SpawnOutcomes : EnvResolved(id, o)
    \/ \E id \in Ids, code \in ExitCodes \cup {SpawnFailCode} :
           ChildClose(id, code)
    \/ \E id \in Ids : ChildError(id)
    \/ \E id \in Ids, d \in Destinations, dir \in DirStates :
           SaveOutput(id, d, dir)
    \/ \E i \in 1..MaxSaveCalls, o \in CopyOutcomes : SaveOutputDone(i, o)

OutputSpec == Init /\ [][OutputNext]_vars

\* the job's child exited with code 0: completed with success was emitted
ExitedZero(id, done) == \E n \in DOMAIN done[id] : done[id][n].success

\* C30: a call of translation:save-output marks a job success (in the
\* history and through markJobSaved) only if the job's history record exists
\* and carries a translatedPath; a record carries a translatedPath only if
\* the job's process exited with code 0; and a call for a job that is
\* queued, running or failed raises an error and leaves the history and the
\* queue as they were.
C30_SaveOnlyAfterExitZero ==
    [][/\ (last'.op = "save-output-done" /\ ~last'.raised) =>
              LET i == FindById(history, last'.id)
              IN  /\ i # 0
                  /\ history[i].translatedPath \notin {Undefined, ""}
                  /\ ExitedZero(last'.id, completed)
       /\ \A i \in DOMAIN history' :
              history'[i].translatedPath \notin {Undefined, ""} =>
                  ExitedZero(history'[i].id, completed')
       /\ (/\ last'.op \in {"save-output", "save-output-done"}
           /\ \E k \in DOMAIN queue :
                  /\ queue[k].id = last'.id
                  /\ queue[k].status \in {"queued", "running", "failed"}) =>
              /\ last'.raised
              /\ queue' = queue
              /\ history' = history
      ]_vars

\* a call has just marked a job success whose record carries the output
\* directory of its run
C30_Witness ==
    /\ last.op = "save-output-done"
    /\ ~last.raised
    /\ JobOf(last.id).status = "success"
    /\ JobOf(last.id).savePath = last.path
    /\ \E i \in DOMAIN history :
           /\ history[i].id = last.id
           /\ history[i].status = "success"
           /\ history[i].savePath = last.path
           /\ history[i].translatedPath = OutputDirOf(last.id)

====
